---- MODULE Spec2Model ----
(***************************************************************************)
(* Model of src/app.py: the IMDb dashboard script.  Every user interaction *)
(* re-runs the whole script; the state that survives a run is the widget   *)
(* state and st.session_state.  The model covers data loading (load_data,  *)
(* clean_dataframe), the director/genre filter, the "Smart Context"        *)
(* selection, the prompt assembly and the streamed chat turn.              *)
(*                                                                         *)
(* Data abstraction: text shown in the chat is a sequence of characters;   *)
(* titles, years, ratings (in tenths) and gross figures are naturals; a    *)
(* Genre string "X, Y" is the sequence of its tags <<"X", "Y">>.           *)
(***************************************************************************)
EXTENDS Integers, Sequences, FiniteSets, TLC

VARIABLES
    sources,            \* what each data source holds: 1 = local file, 2..4 = mirrors
    load_pc,            \* position inside load_data / the module-level check
    df,                 \* the loaded table (sequence of rows, idx = pandas index)
    df_columns,         \* df.columns
    kind_order,         \* per sort column, how this build's sort orders equal keys
    api_key,            \* sidebar text input
    selected_director,  \* sidebar selectbox
    selected_genres,    \* sidebar multiselect
    page,               \* what the last run rendered
    session_state,      \* st.session_state
    phase,              \* "idle" between runs, "streaming" inside st.write_stream
    request,            \* what the last chat submission sent, NoRequest otherwise
    stream,             \* chunks the completion client has produced in this run
    full_res,           \* text accumulated by st.write_stream in this run
    status,             \* label of the st.status widget of this run
    error               \* st.error raised by this run

vars == <<sources, load_pc, df, df_columns, kind_order, api_key, selected_director,
          selected_genres, page, session_state, phase, request,
          stream, full_res, status, error>>

loadVars == <<sources, load_pc, df, df_columns, kind_order>>

(***************************************************************************)
(* Program constants                                                       *)
(***************************************************************************)
Cap == 60
K == 30

(***************************************************************************)
(* Bounds of the model                                                     *)
(***************************************************************************)
MaxExtra == 2       \* large tables have Cap+1 .. Cap+MaxExtra rows
SmallRows == 1      \* rows of the small table used by the chat specification
MaxSubmits == 1     \* chat submissions per session, large tables
MaxReplyChunks == 1 \* chunks per completion stream, large tables
MaxChatSubmits == 2 \* chat submissions per session, small table
MaxChunks == 2      \* chunks per completion stream, small table

(***************************************************************************)
(* Tables                                                                  *)
(***************************************************************************)
Todos == "Todos"
GenreOf(i) == IF i % 3 = 0 THEN <<"Musical">> ELSE <<"Music">>

SortColumns == {"Gross", "IMDB_Rating"}

\* Ratings fall with the row number, so the K best rated rows are rows 1..K.
RatingOf(i) == 100 - i

\* The K highest grossing rows are rows 1..15 and 46..60.
GrossOf(i) == IF i \in (1..15) \cup (46..60) THEN 1000 + i ELSE 500 - i

\* One row of a generated table.  shape "distinct": all ratings and all gross
\* figures differ.  "ties": rows 30 and 31 share a rating and rows 1 and 16
\* share a gross figure, each pair straddling the K-th place of its sort.
\* "dups": row 30 repeats the context columns of row 27 (two films that
\* differ only in Meta_score).  Row 40 is the one film by director "B".
MakeRow(shape, i) ==
    LET twin == IF shape = "dups" /\ i = 30 THEN 27 ELSE i
    IN  [ idx           |-> i,
          Series_Title  |-> twin,
          Released_Year |-> 1950 + twin,
          IMDB_Rating   |-> IF shape = "ties" /\ i = 31 THEN RatingOf(30)
                            ELSE RatingOf(twin),
          Meta_score    |-> i,
          Gross         |-> IF shape = "ties" /\ i = 16 THEN GrossOf(1)
                            ELSE GrossOf(twin),
          Director      |-> IF i = 40 THEN "B" ELSE "A",
          Genre         |-> GenreOf(i) ]

MakeTable(shape, n) == [i \in 1..n |-> MakeRow(shape, i)]

\* a row, a table, as read from a file that has only these columns
RestrictRow(r, columns) == [c \in columns \cup {"idx"} |-> r[c]]
Restrict(table, columns) ==
    [i \in 1..Len(table) |-> RestrictRow(table[i], columns)] \o <<>>

Shapes == {"distinct", "ties", "dups"}
LargeTables == {MakeTable(s, Cap + k) : s \in Shapes, k \in 1..MaxExtra}
SmallTables == {MakeTable("distinct", SmallRows)}

AllColumns == {"Series_Title", "Released_Year", "IMDB_Rating", "Meta_score",
               "Gross", "Director", "Genre"}

\* The column sets of the tables a session runs on.  Director, Genre, Gross,
\* IMDB_Rating and Series_Title are read by the sidebar and the dashboard
\* before the chat is rendered; Released_Year is read by the chat only, so a
\* table without it still reaches the chat.
ColumnSets == {AllColumns, AllColumns \ {"Released_Year"}}

\* pandas' default sort kind (quicksort) does not specify the order of equal
\* keys.  The generated tables have at most one pair of equal keys per sort
\* column, so a build either keeps the pair in row order ("first") or swaps
\* it ("last"), per column.
TieOrders == [SortColumns -> {"first", "last"}]

\* what a stable sort does
StableOrder == [c \in SortColumns |-> "first"]

HasTie(table, by) ==
    \E i, j \in 1..Len(table) : i < j /\ table[i][by] = table[j][by]

\* the orders a build can show on a table: a choice only where keys are equal
TieOrdersOf(table) ==
    {o \in TieOrders : \A c \in SortColumns : ~HasTie(table, c) => o[c] = "first"}

(***************************************************************************)
(* Sidebar options and the filter (lines 75-105)                           *)
(***************************************************************************)
Range(s) == {s[i] : i \in 1..Len(s)}

\* lines 76-77: the selectbox options
directors(table) == {Todos} \cup {table[i].Director : i \in 1..Len(table)}

\* lines 82-88: every tag of every Genre string, split on ','
genres(table) == UNION {Range(table[i].Genre) : i \in 1..Len(table)}

\* str.lower() of a tag, as its characters
Lower(tag) ==
    CASE tag = "Music"   -> <<"m", "u", "s", "i", "c">>
      [] tag = "Musical" -> <<"m", "u", "s", "i", "c", "a", "l">>
      [] OTHER           -> <<>>

\* a occurs in b as a contiguous substring
IsSubstr(a, b) ==
    \E k \in 0..(Len(b) - Len(a)) : SubSeq(b, k + 1, k + Len(a)) = a

\* line 105: str.contains('|'.join(selected), case=False): some selected tag
\* occurs as a substring of the row's Genre string
GenreMatchesAny(genre, selected) ==
    \E g \in selected : \E t \in Range(genre) : IsSubstr(Lower(g), Lower(t))

KeepDirector(r, director) == director = Todos \/ r.Director = director

KeepGenre(genre, selected) == selected = {} \/ GenreMatchesAny(genre, selected)

\* lines 93-105: both filters, table order preserved; the pattern is matched
\* once per distinct Genre string
Filter(table, director, selected) ==
    LET strings  == {table[i].Genre : i \in 1..Len(table)}
        matching == {x \in strings : KeepGenre(x, selected)}
        Keep(r)  == KeepDirector(r, director) /\ r.Genre \in matching
    IN  SelectSeq(table, Keep)

(***************************************************************************)
(* Smart Context (lines 173-188)                                           *)
(***************************************************************************)
\* line 174
ColsList == <<"Series_Title", "Released_Year", "IMDB_Rating", "Gross", "Director",
              "Genre">>

\* line 175: the names of the list the table has, in the order of the list
cols(columns) ==
    LET Present(c) == c \in columns
    IN  SelectSeq(ColsList, Present)

\* lines 174-177: filtered_df[cols], the pandas index is kept
ProjectRow(r, cs) == [c \in Range(cs) \cup {"idx"} |-> r[c]]

Project(rows, cs) == [i \in 1..Len(rows) |-> ProjectRow(rows[i], cs)] \o <<>>

\* the values of a row in the columns cs, in that order (the index is not a
\* column)
Values(r, cs) == [i \in 1..Len(cs) |-> r[cs[i]]] \o <<>>

KeyOf(r, by) == r[by]

\* the row at position j of the input precedes the row at position i in a
\* descending sort: a larger key first; equal keys in the build's order
Precedes(kj, j, ki, i, order) ==
    \/ kj > ki
    \/ kj = ki /\ (IF order = "first" THEN j < i ELSE j > i)

\* sort_values(by, ascending=False)
sort_values(rows, by, tie) ==
    LET n    == Len(rows)
        key  == [i \in 1..n |-> KeyOf(rows[i], by)] \o <<>>
        pos  == [i \in 1..n |->
                    1 + Cardinality({j \in 1..n :
                                        Precedes(key[j], j, key[i], i, tie[by])})]
                \o <<>>
    IN  [r \in 1..n |-> rows[CHOOSE i \in 1..n : pos[i] = r]] \o <<>>

head(rows, n) == SubSeq(rows, 1, IF Len(rows) < n THEN Len(rows) ELSE n)

\* line 183
top_gross(ctx, tie) == head(sort_values(ctx, "Gross", tie), K)

\* the second sample sorted by the first sample's column
TopRatedByGross(ctx, tie) == head(sort_values(ctx, "Gross", tie), K)

\* line 184
top_rated(ctx, tie) == head(sort_values(ctx, "IMDB_Rating", tie), K)

\* drop_duplicates(): rows compared by their column values, first one kept
drop_duplicates(rows, cs) ==
    LET vals   == [i \in 1..Len(rows) |-> Values(rows[i], cs)] \o <<>>
        placed == [i \in 1..Len(rows) |-> <<i, rows[i]>>]
        IsFirst(e) == \A k \in 1..(e[1] - 1) : vals[k] # vals[e[1]]
        kept == SelectSeq(placed, IsFirst)
    IN  [i \in 1..Len(kept) |-> kept[i][2]] \o <<>>

\* the threshold test with >= in place of >
TooManyFromCap(ctx) == Len(ctx) >= Cap

\* line 181
TooMany(ctx) == Len(ctx) > Cap

NoNote == ""
SampleNote == "(Nota para la IA: El usuario esta viendo muchos datos. Se envia una muestra representativa de las Top peliculas por recaudacion y rating)."

\* lines 177-186: the context table and the note
SmartContext(rows, columns, tie) ==
    LET cs  == cols(columns)
        ctx == Project(rows, cs)
    IN  IF TooMany(ctx)
        THEN [ cols        |-> cs,
               ctx_df      |-> drop_duplicates(top_gross(ctx, tie) \o top_rated(ctx, tie), cs),
               warning_msg |-> SampleNote ]
        ELSE [ cols |-> cs, ctx_df |-> ctx, warning_msg |-> NoNote ]

(***************************************************************************)
(* Prompt assembly (lines 188-196)                                         *)
(***************************************************************************)
\* line 188: to_csv(index=False): the header line (the column names), then
\* one line per row
to_csv(ctx, cs) == <<cs>> \o [i \in 1..Len(ctx) |-> Values(ctx[i], cs)]

\* line 190
context_desc(director) ==
    IF director # Todos THEN <<"del director", director>>
    ELSE <<"de una seleccion global de peliculas">>

\* lines 192-196: the parts of the f-string, in order
sys_prompt(director, csv_txt, warning_msg) ==
    [ persona     |-> <<"Eres un experto en cine. El usuario esta analizando datos">>
                        \o context_desc(director),
      csv_txt     |-> csv_txt,
      warning_msg |-> warning_msg,
      directive   |-> "Responde a la pregunta basandote en estos datos. Si preguntan algo general fuera de los datos, usa tu conocimiento general pero avisa." ]

(***************************************************************************)
(* Data loading (lines 15-67) and the first reads of the table             *)
(***************************************************************************)
\* What a data source can hold.  "absent": no such file / the fetch raises;
\* "read_fail": read_csv raises; "no_required_cols": a table without the
\* Director column; "no_other_cols": a table with Director and Gross but
\* without Genre; "no_year_col": a table without Released_Year; "clean_fail": a table on which clean_dataframe raises
\* inside its try; "all_rows_dropped": a table whose every Released_Year is
\* not numeric; "ok": a clean table.
Outcomes == {"absent", "read_fail", "no_required_cols", "no_other_cols",
             "no_year_col", "clean_fail", "all_rows_dropped", "ok"}

Local == 1
Mirrors == {2, 3, 4}
Exhausted == 5

Readable(o) == o \notin {"absent", "read_fail"}

\* the columns of the table read_csv returns
ColumnsOf(o) ==
    CASE o = "no_required_cols" -> AllColumns \ {"Director"}
      [] o = "no_other_cols"    -> AllColumns \ {"Genre"}
      [] o = "no_year_col"      -> AllColumns \ {"Released_Year"}
      [] OTHER                  -> AllColumns

\* line 36
HasRequired(columns) == "Director" \in columns /\ "Gross" \in columns

RowsOf(o) ==
    Restrict(MakeTable("distinct", SmallRows), ColumnsOf(o))

EmptyFrame == [columns |-> {}, rows |-> <<>>]

\* lines 43-60: the cleaned table, or pd.DataFrame() when cleaning raised
clean_dataframe(o) ==
    CASE o = "clean_fail"       -> EmptyFrame
      [] o = "all_rows_dropped" -> [columns |-> ColumnsOf(o), rows |-> <<>>]
      [] OTHER                  -> [columns |-> ColumnsOf(o), rows |-> RowsOf(o)]

\* lines 19-24 and 33-39: does load_data return at this source
ReturnsAt(i, o) ==
    /\ Readable(o)
    /\ i = Local \/ HasRequired(ColumnsOf(o))

\* one iteration of load_data: the local file, then each mirror
TrySource ==
    /\ load_pc[1] = "try"
    /\ load_pc[2] # Exhausted
    /\ LET i == load_pc[2]
           o == sources[i]
       IN  IF ReturnsAt(i, o)
           THEN /\ df' = clean_dataframe(o).rows
                /\ df_columns' = clean_dataframe(o).columns
                /\ load_pc' = <<"returned", i>>
           ELSE /\ load_pc' = <<"try", i + 1>>
                /\ UNCHANGED <<df, df_columns>>
    /\ UNCHANGED <<sources, kind_order, api_key, selected_director, selected_genres,
                   page, session_state, phase, request, stream, full_res, status,
                   error>>

\* line 41: every source failed
ReturnEmpty ==
    /\ load_pc = <<"try", Exhausted>>
    /\ df' = EmptyFrame.rows
    /\ df_columns' = EmptyFrame.columns
    /\ load_pc' = <<"returned", Exhausted>>
    /\ UNCHANGED <<sources, kind_order, api_key, selected_director, selected_genres,
                   page, session_state, phase, request, stream, full_res, status,
                   error>>

\* df.empty
IsEmptyFrame(rows, columns) == Len(rows) = 0 \/ columns = {}

\* the columns the script subscripts without a guard: lines 76, 82, 115-121
ReadColumns == {"Director", "Genre", "Gross", "IMDB_Rating", "Series_Title"}

\* the log initialised on every run
ResetMessages(ss) == [messages |-> <<>>]

\* line 157
EnsureMessages(ss) ==
    IF "messages" \in DOMAIN ss THEN ss ELSE [messages |-> <<>>]

\* lines 93-105: the script computes filtered_df from the table and the
\* widgets on every run, before anything reads it
filtered_df == Filter(df, selected_director, selected_genres)

\* the chat block placed outside the else branch
PageAlwaysDashboard(rows) == "dashboard"

\* lines 110-112: the warning replaces the dashboard and the chat
PageFor(rows) == IF rows = <<>> THEN "warning" ELSE "dashboard"

\* lines 65-162 of the first run: stop on an empty table, otherwise build the
\* sidebar and the dashboard; a missing column raises KeyError
FirstRender ==
    /\ load_pc[1] = "returned"
    /\ load_pc' = <<"done", load_pc[2]>>
    /\ IF IsEmptyFrame(df, df_columns)
       THEN /\ page' = "load_error"
            /\ UNCHANGED session_state
       ELSE IF ~(ReadColumns \subseteq df_columns)
       THEN /\ page' = "crash"
            /\ UNCHANGED session_state
       ELSE /\ page' = PageFor(filtered_df)
            /\ session_state' = EnsureMessages(session_state)
    /\ UNCHANGED <<sources, df, df_columns, kind_order, api_key, selected_director,
                   selected_genres, phase, request, stream, full_res, status, error>>

(***************************************************************************)
(* A script run after load: widgets, filter, page, chat (lines 69-217)     *)
(***************************************************************************)
NoRequest == [issued |-> FALSE]

ApiKeys == {"", "key"}
Prompts == {<<"q">>}

\* a chunk of the stream: chunk.text is None (has_text FALSE) or text
Chunks == { [has_text |-> FALSE, text |-> <<>>],
            [has_text |-> TRUE,  text |-> <<"a">>],
            [has_text |-> TRUE,  text |-> <<"b">>] }

TextChunks == {[has_text |-> TRUE, text |-> <<"a">>]}

\* line 164 sits in the else branch of line 110: the chat input is on the
\* page only when the dashboard is
ChatOffered == page = "dashboard"

Loaded == load_pc[1] = "done" /\ page \in {"dashboard", "warning"}

UserTurns(log) == Cardinality({i \in 1..Len(log) : log[i].role = "user"})

\* a run that goes no further than the page: widgets changed, no prompt
Rerun(k, d, g) ==
    LET rows == Filter(df, d, g)
    IN  /\ api_key' = k
        /\ selected_director' = d
        /\ selected_genres' = g
        /\ page' = PageFor(rows)
        /\ session_state' = IF PageFor(rows) = "dashboard"
                            THEN EnsureMessages(session_state)
                            ELSE session_state
        /\ phase' = "idle"
        /\ request' = NoRequest
        /\ stream' = <<>>
        /\ full_res' = <<>>
        /\ status' = "none"
        /\ error' = "none"
        /\ UNCHANGED loadVars

SetApiKey(k) ==
    /\ Loaded /\ phase = "idle"
    /\ k # api_key
    /\ Rerun(k, selected_director, selected_genres)

SelectDirector(d) ==
    /\ Loaded /\ phase = "idle"
    /\ d \in directors(df) /\ d # selected_director
    /\ Rerun(api_key, d, selected_genres)

SelectGenres(g) ==
    /\ Loaded /\ phase = "idle"
    /\ g \subseteq genres(df) /\ g # selected_genres
    /\ Rerun(api_key, selected_director, g)

\* the key check left out
HasKeyAlways(k) == TRUE

\* line 165
HasKey(k) == k # ""

\* lines 164-167: a prompt without a key: st.error, st.stop
SubmitNoKey(prompt) ==
    /\ Loaded /\ phase = "idle"
    /\ ChatOffered
    /\ ~HasKey(api_key)
    /\ session_state' = EnsureMessages(session_state)
    /\ error' = "Falta la API Key"
    /\ request' = NoRequest
    /\ stream' = <<>>
    /\ full_res' = <<>>
    /\ status' = "none"
    /\ UNCHANGED <<loadVars, api_key, selected_director, selected_genres, page, phase>>

\* line 204: contents=[sys_prompt, prompt], built from what the run selected
contents(req) ==
    <<sys_prompt(req.director, to_csv(req.ctx_df, req.cols), req.warning_msg),
      req.prompt>>

\* lines 164-206: a prompt with a key: the user turn, the context, the
\* prompt, the client call, which returns a stream or raises
Submit(prompt, quota) ==
    /\ Loaded /\ phase = "idle"
    /\ ChatOffered
    /\ HasKey(api_key)
    /\ UserTurns(session_state.messages) < quota
    /\ LET log == Append(EnsureMessages(session_state).messages,
                         [role |-> "user", content |-> prompt])
           sc  == SmartContext(filtered_df, df_columns, kind_order)
       IN  /\ session_state' = [messages |-> log]
           /\ request' = [ issued      |-> TRUE,
                           log0        |-> log,
                           director    |-> selected_director,
                           cols        |-> sc.cols,
                           ctx_df      |-> sc.ctx_df,
                           warning_msg |-> sc.warning_msg,
                           model       |-> "gemini-2.5-flash",
                           prompt      |-> prompt ]
    /\ stream' = <<>>
    /\ full_res' = <<>>
    /\ \/ status' = "Listo" /\ error' = "none" /\ phase' = "streaming"
       \/ status' = "Error" /\ error' = "Error AI" /\ phase' = "idle"
    /\ UNCHANGED <<loadVars, api_key, selected_director, selected_genres, page>>

\* the accumulator putting each new chunk in front
StreamerPrepends(acc, chunk) ==
    IF chunk.has_text /\ chunk.text # <<>> THEN chunk.text \o acc ELSE acc

\* lines 208-210: what the generator yields for one chunk
streamer(acc, chunk) ==
    IF chunk.has_text /\ chunk.text # <<>> THEN acc \o chunk.text ELSE acc

\* line 212, one chunk arrives
StreamChunk(chunk, limit) ==
    /\ phase = "streaming"
    /\ Len(stream) < limit
    /\ stream' = Append(stream, chunk)
    /\ full_res' = streamer(full_res, chunk)
    /\ UNCHANGED <<loadVars, api_key, selected_director, selected_genres, page,
                   session_state, phase, request, status, error>>

\* line 213
AppendAssistant(log, text) == Append(log, [role |-> "assistant", content |-> text])

\* lines 212-213: the stream is exhausted
StreamEnd ==
    /\ phase = "streaming"
    /\ session_state' = [messages |-> AppendAssistant(session_state.messages, full_res)]
    /\ phase' = "idle"
    /\ UNCHANGED <<loadVars, api_key, selected_director, selected_genres, page,
                   request, stream, full_res, status, error>>

\* the except branch recording the partial text
LogOnErrorKeepsPartial(log, text) == AppendAssistant(log, text)

\* lines 215-217: what the except branch leaves in the log
LogOnError(log, text) == log

\* lines 215-217: the stream raises
StreamFail ==
    /\ phase = "streaming"
    /\ session_state' = [messages |-> LogOnError(session_state.messages, full_res)]
    /\ status' = "Error"
    /\ error' = "Error AI"
    /\ phase' = "idle"
    /\ UNCHANGED <<loadVars, api_key, selected_director, selected_genres, page,
                   request, stream, full_res>>

(***************************************************************************)
(* Specifications                                                          *)
(***************************************************************************)
InitSession(table, columns, tie) ==
    /\ sources = [i \in {Local} \cup Mirrors |-> "ok"]
    /\ load_pc = <<"done", Local>>
    /\ df = Restrict(table, columns)
    /\ df_columns = columns
    /\ kind_order = tie
    /\ api_key = ""
    /\ selected_director = Todos
    /\ selected_genres = {}
    /\ page = "dashboard"
    /\ session_state = [messages |-> <<>>]
    /\ phase = "idle"
    /\ request = NoRequest
    /\ stream = <<>>
    /\ full_res = <<>>
    /\ status = "none"
    /\ error = "none"

\* the session on a large table, after the first run
Init ==
    \E table \in LargeTables, columns \in ColumnSets :
        \E tie \in TieOrdersOf(table) : InitSession(table, columns, tie)

Next ==
    \/ \E k \in ApiKeys : SetApiKey(k)
    \/ \E d \in directors(df) : SelectDirector(d)
    \/ \E g \in SUBSET genres(df) : SelectGenres(g)
    \/ \E p \in Prompts : SubmitNoKey(p)
    \/ \E p \in Prompts : Submit(p, MaxSubmits)
    \/ \E c \in TextChunks : StreamChunk(c, MaxReplyChunks)
    \/ StreamEnd
    \/ StreamFail

Spec == Init /\ [][Next]_vars

\* the session on a small table, more submissions
ChatInit ==
    \E table \in SmallTables, columns \in ColumnSets :
        InitSession(table, columns, StableOrder)

ChatNext ==
    \/ \E k \in ApiKeys : SetApiKey(k)
    \/ \E d \in directors(df) : SelectDirector(d)
    \/ \E g \in SUBSET genres(df) : SelectGenres(g)
    \/ \E p \in Prompts : SubmitNoKey(p)
    \/ \E p \in Prompts : Submit(p, MaxChatSubmits)
    \/ \E c \in Chunks : StreamChunk(c, MaxChunks)
    \/ StreamEnd
    \/ StreamFail

SpecChat == ChatInit /\ [][ChatNext]_vars

\* the first run of the script, for every content of the four sources
LoadInit ==
    /\ sources \in [{Local} \cup Mirrors -> Outcomes]
    /\ load_pc = <<"try", Local>>
    /\ df = <<>>
    /\ df_columns = {}
    /\ kind_order = StableOrder
    /\ api_key = ""
    /\ selected_director = Todos
    /\ selected_genres = {}
    /\ page = "loading"
    /\ session_state = <<>>
    /\ phase = "idle"
    /\ request = NoRequest
    /\ stream = <<>>
    /\ full_res = <<>>
    /\ status = "none"
    /\ error = "none"

LoadNext == TrySource \/ ReturnEmpty \/ FirstRender

SpecLoad == LoadInit /\ [][LoadNext]_vars

(***************************************************************************)
(* Properties                                                              *)
(***************************************************************************)
Messages == session_state.messages
Issued == request.issued
SingleEntity == selected_director # Todos
Sent == request.ctx_df

IdxOf(rows) == {rows[i].idx : i \in 1..Len(rows)}
ValuesOf(rows, cs) == {Values(rows[i], cs) : i \in 1..Len(rows)}

\* the names of the fixed list that the loaded table has, in list order
PresentCols ==
    [i \in 1..Cardinality({k \in 1..Len(ColsList) : ColsList[k] \in df_columns}) |->
        ColsList[CHOOSE k \in 1..Len(ColsList) :
                    /\ ColsList[k] \in df_columns
                    /\ Cardinality({m \in 1..k : ColsList[m] \in df_columns}) = i]]

\* row c of the context is row f of the filtered table, cut to the columns cs
SameRow(c, f, cs) ==
    /\ c.idx = f.idx
    /\ DOMAIN c = Range(cs) \cup {"idx"}
    /\ \A col \in Range(cs) : c[col] = f[col]

\* C1: whenever a request is issued for a filtered table of at most Cap rows
\* (Cap included), the context is that table cut to the columns of the fixed
\* list that the table has, row for row in the same order, the note is empty
\* and the CSV block of the prompt is the header of those columns followed by
\* exactly those rows; the selection applied to no rows gives no rows and no
\* note.
C1_SmallTableSentWhole ==
    /\ SmartContext(<<>>, df_columns, kind_order)
          = [cols |-> PresentCols, ctx_df |-> <<>>, warning_msg |-> NoNote]
    /\ Issued =>
          LET f   == filtered_df
              csv == contents(request)[1].csv_txt
          IN  Len(f) <= Cap =>
                /\ request.cols = PresentCols
                /\ Len(Sent) = Len(f)
                /\ \A i \in 1..Len(f) : SameRow(Sent[i], f[i], PresentCols)
                /\ request.warning_msg = NoNote
                /\ Len(csv) = Len(f) + 1
                /\ csv[1] = PresentCols
                /\ \A i \in 1..Len(f) : \A k \in 1..Len(PresentCols) :
                      csv[i + 1][k] = f[i][PresentCols[k]]
                /\ contents(request)[1].warning_msg = NoNote

\* exactly Cap rows of a table without Released_Year, sent whole
C1_Witness ==
    /\ Issued
    /\ "Released_Year" \notin df_columns
    /\ Len(filtered_df) = Cap
    /\ Len(Sent) = Cap
    /\ Len(request.cols) = Len(ColsList) - 1

\* every row of ctx is rated at least as high as every row of f left out
BestRated(ctx, f) ==
    LET sent == IdxOf(ctx)
        out  == {j \in 1..Len(f) : f[j].idx \notin sent}
    IN  \A i \in 1..Len(ctx) : \A j \in out : ctx[i].IMDB_Rating >= f[j].IMDB_Rating

\* C2 as stated: with one director selected and more than Cap rows, the
\* context has exactly Cap rows and each of them is rated at least as high as
\* every row left out.
C2_ExactlyCapBestRated ==
    (Issued /\ SingleEntity) =>
        LET f == filtered_df
        IN  Len(f) > Cap =>
              /\ Len(request.ctx_df) = Cap
              /\ BestRated(request.ctx_df, f)

\* the rows of f, other than row j, whose key is at least that of row j
AtLeastAsGood(key, j) == {k \in DOMAIN key : k # j /\ key[k] >= key[j]}

\* a row of f whose values are not in ctx has at least K other rows rated no
\* lower and at least K other rows grossing no less
LeftOutAreOutranked(ctx, f) ==
    LET sent   == ValuesOf(ctx, PresentCols)
        out    == {j \in 1..Len(f) : Values(f[j], PresentCols) \notin sent}
        rating == [j \in 1..Len(f) |-> f[j].IMDB_Rating] \o <<>>
        gross  == [j \in 1..Len(f) |-> f[j].Gross] \o <<>>
    IN  \A j \in out :
            /\ Cardinality(AtLeastAsGood(rating, j)) >= K
            /\ Cardinality(AtLeastAsGood(gross, j)) >= K

\* C2 amended: with one director selected and more than Cap rows the code
\* samples as it does for 'Todos': the context holds between 1 and Cap rows,
\* each the cut of a filtered row, no two with equal values, the note is
\* attached, and a row whose values are not in the context has at least K
\* other rows rated no lower and at least K other rows grossing no less.
C2_UnionSampleForOneDirector ==
    (Issued /\ SingleEntity) =>
        LET f   == filtered_df
            ctx == request.ctx_df
        IN  Len(f) > Cap =>
              /\ request.warning_msg = SampleNote
              /\ Len(ctx) \in 1..Cap
              /\ \A i \in 1..Len(ctx) : \E j \in 1..Len(f) : SameRow(ctx[i], f[j], PresentCols)
              /\ Cardinality(ValuesOf(ctx, PresentCols)) = Len(ctx)
              /\ LeftOutAreOutranked(ctx, f)

\* one director, more than Cap rows, and a row sent for its gross is rated
\* below a row left out
C2_Witness ==
    /\ Issued /\ SingleEntity
    /\ LET f == filtered_df
       IN  /\ Len(f) > Cap
           /\ Len(request.ctx_df) < Cap
           /\ ~BestRated(request.ctx_df, f)

\* C3: under 'Todos' with more than Cap rows, the context is the top K by
\* Gross together with the top K by IMDB_Rating, each source row once and no
\* two source rows merged, between K and Cap rows, with the note attached.
C3_UnionByRowIdentity ==
    (Issued /\ ~SingleEntity) =>
        LET f   == filtered_df
            ctx == request.ctx_df
        IN  Len(f) > Cap =>
              /\ IdxOf(ctx) = IdxOf(top_gross(f, kind_order))
                                \cup IdxOf(top_rated(f, kind_order))
              /\ Cardinality(IdxOf(ctx)) = Len(ctx)
              /\ Len(ctx) \in K..Cap
              /\ request.warning_msg = SampleNote

\* C4: the context of a truncated table is the one a stable sort gives: rows
\* with equal Gross or equal IMDB_Rating keep their original order, so the
\* same table always yields the same rows in the same order.
C4_TiesInOriginalOrder ==
    Issued =>
        LET f == filtered_df
        IN  Len(f) > Cap => request.ctx_df = SmartContext(f, df_columns, StableOrder).ctx_df

Failed == Issued /\ phase = "idle" /\ error = "Error AI"
Completed == Issued /\ phase = "idle" /\ error = "none"

\* C5: when the stream raises after text has been received, the log is the
\* log the request was issued with (it ends with the user's turn; no
\* assistant turn, no partial text) and the error is reported.
C5_FailedStreamLeavesLog ==
    (Failed /\ full_res # <<>>) =>
        /\ Messages = request.log0
        /\ Messages[Len(Messages)].role = "user"
        /\ status = "Error"

C5_Witness ==
    /\ Failed
    /\ Len(stream) = 2
    /\ Len(full_res) = 2
    /\ Messages = request.log0

\* C6: while the key is empty no request is issued, no client call is in
\* progress or answered, and the only error a submission surfaces is the
\* missing-key error.
C6_NoKeyNoClient ==
    api_key = "" =>
        /\ ~Issued
        /\ phase = "idle"
        /\ status = "none"
        /\ stream = <<>>
        /\ error \in {"none", "Falta la API Key"}

C6_Witness ==
    /\ api_key = ""
    /\ error = "Falta la API Key"
    /\ ~Issued

RECURSIVE JoinTexts(_)
JoinTexts(chunks) ==
    IF chunks = <<>> THEN <<>>
    ELSE JoinTexts(SubSeq(chunks, 1, Len(chunks) - 1)) \o chunks[Len(chunks)].text

\* C7: when the stream ends without error, the log is the log the request
\* was issued with plus exactly one assistant turn whose content is the texts
\* of all chunks the client produced, joined in emission order.
C7_CompletedStreamAppendsOneTurn ==
    Completed =>
        Messages = Append(request.log0,
                          [role |-> "assistant", content |-> JoinTexts(stream)])

C7_Witness ==
    /\ Completed
    /\ Len(full_res) = 2
    /\ full_res[1] # full_res[2]
    /\ Messages[Len(Messages)].content = full_res

ReportsFailure == page = "load_error"

\* C8: the first run ends with the dashboard on a table that has every column
\* the script reads, or with the error message after every source was tried
\* and none was usable; it never ends in an unhandled exception.
C8_LoadFallsBackOrReports ==
    load_pc[1] = "done" =>
        /\ page # "crash"
        /\ page = "dashboard" => (ReadColumns \subseteq df_columns /\ df # <<>>)
        /\ ReportsFailure => \A i \in DOMAIN sources : sources[i] # "ok"

\* C9 as stated: with an empty filtered table the chat is still offered, so a
\* submission can go through with an empty context.
C9_ChatOfferedOnEmptyTable ==
    (Loaded /\ filtered_df = <<>>) => ChatOffered

\* C9 amended: with an empty filtered table the run shows the warning and
\* offers no chat input: no submission happens, no context or prompt is
\* built, no client call is made and no error is raised.
C9_EmptyTableOffersNoChat ==
    (Loaded /\ filtered_df = <<>>) =>
        /\ page = "warning"
        /\ ~Issued
        /\ phase = "idle"
        /\ status = "none"
        /\ error = "none"

C9_Witness ==
    /\ Loaded
    /\ filtered_df = <<>>
    /\ HasKey(api_key)
    /\ page = "warning"

IsPrefix(s, t) == Len(s) <= Len(t) /\ SubSeq(t, 1, Len(s)) = s

\* C10: every step leaves the log it found as a prefix of the log it leaves:
\* turns are only ever appended.
C10_LogAppendOnly == [][IsPrefix(Messages, Messages')]_vars

C10_Witness ==
    /\ Len(Messages) >= 3
    /\ Failed
    /\ \E i \in 1..Len(Messages) : Messages[i].role = "assistant"
====
